---- MODULE Spec2Model ----
(***************************************************************************)
(* Token-budget accounting (src/src/token_manager.py) and the document     *)
(* placement strategies that consume it (src/src/context_strategies.py).   *)
(*                                                                         *)
(* A text is a sequence of words.  The tokenizer library is an external    *)
(* collaborator: an encoding turns every word into TokensPerWord(enc)      *)
(* tokens, so that token counts depend on the encoding in use.             *)
(***************************************************************************)
EXTENDS Integers, Sequences, FiniteSets, TLC

VARIABLES
    _TOKENIZER,      \* module global of token_manager.py: None or an encoding
    tracker,         \* the TokenBudgetManager instance under test
    lastCall,        \* the most recent tracker call: operation, argument, result
    documents,       \* the caller's document list handed to a strategy
    scores,          \* similarity the embedder yields for documents[i]
    token_limit,     \* token_limit argument of a strategy call
    embedder,        \* TRUE when an embedder is supplied, FALSE for None
    call,            \* outcome of the most recent strategy or function call
    inflight,        \* strategy invocations running side by side, each
                     \* with its own locals
    files,           \* progress/lesson_results.json and
                     \* data/source_documents.json as the verifier finds them
    verifier         \* the LessonVerifier, its position and its report

vars == <<_TOKENIZER, tracker, lastCall, documents, scores, token_limit,
          embedder, call, inflight, files, verifier>>

trackerVars == <<tracker, lastCall>>
assemblyVars == <<documents, scores, token_limit, embedder, call>>
otherVars == <<inflight, files, verifier>>

-----------------------------------------------------------------------------
(* Bounds of the model *)

MaxCeiling == 3        \* constructor arguments range over -1 .. MaxCeiling (+1)
MaxCost == 2           \* integer costs range over -MaxCost .. MaxCost
MaxNegUsed == 3        \* used_tokens is explored down to -MaxNegUsed
MaxTextLen == 2        \* text arguments of can_add / add have 0 .. MaxTextLen words

None == "None"
Encodings == {"cl100k_base", "p50k_base"}

\* no invocation in flight and no verifier run
OthersIdle ==
    /\ inflight = <<>>
    /\ files = None
    /\ verifier = None

-----------------------------------------------------------------------------
(* Tokenizer: get_tokenizer, count_tokens *)

\* tiktoken encodings differ in vocabulary: the number of tokens a word yields
TokensPerWord(enc) == IF enc = "cl100k_base" THEN 1 ELSE 2

\* tokenizer.encode(text): each word becomes TokensPerWord(enc) tokens
encode(enc, text) ==
    [i \in 1..(Len(text) * TokensPerWord(enc)) |->
        [enc   |-> enc,
         word  |-> text[((i - 1) \div TokensPerWord(enc)) + 1],
         piece |-> ((i - 1) % TokensPerWord(enc)) + 1]]

\* get_tokenizer(model_name): the global is set on first use only;
\* yields the encoding in use and the new value of the global
get_tokenizer(tk, model_name) ==
    IF tk = None THEN model_name ELSE tk

\* count_tokens(text, model_name): [n |-> token count, tk |-> new global]
count_tokens(tk, text, model_name) ==
    IF text = <<>>
    THEN [n |-> 0, tk |-> tk]
    ELSE [n  |-> Len(encode(get_tokenizer(tk, model_name), text)),
          tk |-> get_tokenizer(tk, model_name)]

\* fits_in_budget(text, budget, model_name): [ret, tk]
fits_in_budget(tk, text, budget, model_name) ==
    LET c == count_tokens(tk, text, model_name)
    IN  [ret |-> c.n <= budget, tk |-> c.tk]

\* the text a token stands for when its word is not complete
Fragment(token) == token.word \o "~" \o ToString(token.piece)

\* tokenizer.decode(tokens): the pieces of a word give the word back, a
\* piece left alone by a slice gives a fragment of it
RECURSIVE decode(_)
decode(tokens) ==
    IF tokens = <<>>
    THEN <<>>
    ELSE LET t == Head(tokens)
         IN  IF TokensPerWord(t.enc) = 1
             THEN <<t.word>> \o decode(Tail(tokens))
             ELSE IF t.piece = 1 /\ Len(tokens) >= 2
                  THEN <<t.word>> \o decode(Tail(Tail(tokens)))
                  ELSE <<Fragment(t)>> \o decode(Tail(tokens))

\* Python tokens[:budget] for budget >= 0
Leading(tokens, budget) ==
    SubSeq(tokens, 1, IF budget <= Len(tokens) THEN budget ELSE Len(tokens))

\* Python tokens[-budget:] for budget >= 0: -0 is 0, the start of the list
Trailing(tokens, budget) ==
    IF budget = 0 \/ budget >= Len(tokens)
    THEN tokens
    ELSE SubSeq(tokens, Len(tokens) - budget + 1, Len(tokens))

\* truncate_to_budget(text, budget, model_name, from_end):
\* [result, fits, tk]
truncate_to_budget(tk, text, budget, model_name, from_end) ==
    LET f == fits_in_budget(tk, text, budget, model_name)
        tokenizer == get_tokenizer(f.tk, model_name)
        tokens == encode(tokenizer, text)
        truncated_tokens == IF from_end
                            THEN Leading(tokens, budget)
                            ELSE Trailing(tokens, budget)
    IN  IF f.ret
        THEN [result |-> text, fits |-> TRUE, tk |-> f.tk]
        ELSE [result |-> decode(truncated_tokens), fits |-> FALSE,
              tk |-> tokenizer]

-----------------------------------------------------------------------------
(* Inputs and calls of the tokenizer functions *)

MaxWords == 3          \* texts handed to the functions have 0 .. MaxWords words
MaxBudget == 3         \* budget arguments range over 0 .. MaxBudget

Words == {"x", "y"}
Texts == UNION {[1..n -> Words] : n \in 0..MaxWords}
Budgets == 0..MaxBudget

InitTokens ==
    /\ _TOKENIZER = None
    /\ OthersIdle
    /\ tracker = None
    /\ lastCall = [op |-> "none"]
    /\ documents = <<>>
    /\ scores = <<>>
    /\ token_limit = 0
    /\ embedder = FALSE
    /\ call = [strategy |-> "none"]

\* get_tokenizer(model_name)
GetTokenizer ==
    \E model_name \in Encodings :
        /\ call' = [strategy   |-> "get_tokenizer",
                    model_name |-> model_name,
                    result     |-> get_tokenizer(_TOKENIZER, model_name)]
        /\ _TOKENIZER' = get_tokenizer(_TOKENIZER, model_name)
        /\ UNCHANGED <<documents, scores, token_limit, embedder, trackerVars,
                       otherVars>>

\* count_tokens(text, model_name)
CountTokens ==
    \E text \in Texts, model_name \in Encodings :
        LET r == count_tokens(_TOKENIZER, text, model_name)
        IN  /\ call' = [strategy   |-> "count_tokens",
                        text       |-> text,
                        model_name |-> model_name,
                        result     |-> r.n]
            /\ _TOKENIZER' = r.tk
            /\ UNCHANGED <<documents, scores, token_limit, embedder,
                           trackerVars, otherVars>>

\* fits_in_budget(text, budget, model_name)
FitsInBudget ==
    \E text \in Texts, budget \in Budgets, model_name \in Encodings :
        LET r == fits_in_budget(_TOKENIZER, text, budget, model_name)
        IN  /\ call' = [strategy   |-> "fits_in_budget",
                        text       |-> text,
                        budget     |-> budget,
                        model_name |-> model_name,
                        result     |-> r.ret]
            /\ _TOKENIZER' = r.tk
            /\ UNCHANGED <<documents, scores, token_limit, embedder,
                           trackerVars, otherVars>>

\* truncate_to_budget(text, budget, model_name, from_end)
TruncateToBudget ==
    \E text \in Texts, budget \in Budgets, model_name \in Encodings,
       from_end \in BOOLEAN :
        LET r == truncate_to_budget(_TOKENIZER, text, budget, model_name,
                                    from_end)
        IN  /\ call' = [strategy   |-> "truncate_to_budget",
                        text       |-> text,
                        budget     |-> budget,
                        model_name |-> model_name,
                        from_end   |-> from_end,
                        fits       |-> r.fits,
                        result     |-> r.result]
            /\ _TOKENIZER' = r.tk
            /\ UNCHANGED <<documents, scores, token_limit, embedder,
                           trackerVars, otherVars>>

NextTokens == GetTokenizer \/ CountTokens \/ FitsInBudget \/ TruncateToBudget

SpecTokens == InitTokens /\ [][NextTokens]_vars

-----------------------------------------------------------------------------
(* TokenBudgetManager *)

\* Python values of the Union[int, str] arguments carry their type
PyInt(n) == [type |-> "int", value |-> n]
PyStr(text) == [type |-> "str", value |-> text]

\* isinstance(tokens, str)
IsText(tokens) == tokens.type = "str"

\* __init__ that books the overhead as used
TokenBudgetManager_charged(max_tokens, overhead, model_name) ==
    [max_tokens       |-> max_tokens,
     overhead         |-> overhead,
     model_name       |-> model_name,
     used_tokens      |-> overhead,
     available_tokens |-> max_tokens - overhead]

\* __init__
TokenBudgetManager(max_tokens, overhead, model_name) ==
    [max_tokens       |-> max_tokens,
     overhead         |-> overhead,
     model_name       |-> model_name,
     used_tokens      |-> 0,
     available_tokens |-> max_tokens - overhead]

\* property remaining
remaining(self) == self.available_tokens - self.used_tokens

\* the isinstance(tokens, str) conversion shared by can_add and add
TokenCount(self, tk, tokens) ==
    IF IsText(tokens)
    THEN count_tokens(tk, tokens.value, self.model_name)
    ELSE [n |-> tokens.value, tk |-> tk]

\* can_add with a strict comparison
can_add_strict(self, tk, tokens) ==
    LET c == TokenCount(self, tk, tokens)
    IN  [ret |-> (self.used_tokens + c.n < self.available_tokens),
         tk  |-> c.tk]

\* can_add(tokens): [ret, tk]; the tracker itself is not assigned
can_add(self, tk, tokens) ==
    LET c == TokenCount(self, tk, tokens)
    IN  [ret |-> (self.used_tokens + c.n <= self.available_tokens),
         tk  |-> c.tk]

\* add whose guard leaves the cost out
add_unguarded(self, tk, tokens) ==
    LET c == TokenCount(self, tk, tokens)
    IN  IF self.used_tokens <= self.available_tokens
        THEN [self |-> [self EXCEPT !.used_tokens = self.used_tokens + c.n],
              ret  |-> TRUE,
              tk   |-> c.tk]
        ELSE [self |-> self, ret |-> FALSE, tk |-> c.tk]

\* add with a strict comparison
add_strict(self, tk, tokens) ==
    LET c == TokenCount(self, tk, tokens)
    IN  IF self.used_tokens + c.n < self.available_tokens
        THEN [self |-> [self EXCEPT !.used_tokens = self.used_tokens + c.n],
              ret  |-> TRUE,
              tk   |-> c.tk]
        ELSE [self |-> self, ret |-> FALSE, tk |-> c.tk]

\* add(tokens): [self, ret, tk]
add(self, tk, tokens) ==
    LET c == TokenCount(self, tk, tokens)
    IN  IF self.used_tokens + c.n <= self.available_tokens
        THEN [self |-> [self EXCEPT !.used_tokens = self.used_tokens + c.n],
              ret  |-> TRUE,
              tk   |-> c.tk]
        ELSE [self |-> self, ret |-> FALSE, tk |-> c.tk]

\* reset that gives the reserved overhead back as well
reset_clears_overhead(self) ==
    [self EXCEPT !.used_tokens = 0,
                 !.overhead = 0,
                 !.available_tokens = self.max_tokens]

\* reset()
reset(self) == [self EXCEPT !.used_tokens = 0]

-----------------------------------------------------------------------------
(* Inputs of the tracker operations *)

CeilingArgs == -1..MaxCeiling
OverheadArgs == -1..(MaxCeiling + 1)
IntCosts == {PyInt(n) : n \in (0 - MaxCost)..MaxCost}
TextCosts == {PyStr(t) : t \in UNION {[1..n -> {"w"}] : n \in 0..MaxTextLen}}
Costs == IntCosts \cup TextCosts

NoDocuments == <<>>

\* the variables of the strategy calls, idle while the tracker is exercised
AssemblyIdle ==
    /\ documents = NoDocuments
    /\ scores = <<>>
    /\ token_limit = 0
    /\ embedder = FALSE
    /\ call = [strategy |-> "none"]

InitTracker ==
    /\ _TOKENIZER = None
    /\ OthersIdle
    /\ \E m \in CeilingArgs, o \in OverheadArgs, e \in Encodings :
          /\ tracker = TokenBudgetManager(m, o, e)
          /\ lastCall = [op |-> "TokenBudgetManager", arg |-> <<m, o>>,
                         ret |-> TRUE, raised |-> "none"]
    /\ AssemblyIdle

\* manager = TokenBudgetManager(max_tokens, overhead, model_name)
Construct ==
    \E m \in CeilingArgs, o \in OverheadArgs, e \in Encodings :
        /\ tracker' = TokenBudgetManager(m, o, e)
        /\ lastCall' = [op |-> "TokenBudgetManager", arg |-> <<m, o>>,
                        ret |-> TRUE, raised |-> "none"]
        /\ UNCHANGED <<_TOKENIZER, assemblyVars, otherVars>>

\* manager.can_add(tokens)
CanAdd ==
    \E tokens \in Costs :
        LET r == can_add(tracker, _TOKENIZER, tokens)
        IN  /\ lastCall' = [op |-> "can_add", arg |-> tokens,
                            ret |-> r.ret, raised |-> "none"]
            /\ _TOKENIZER' = r.tk
            /\ UNCHANGED <<tracker, assemblyVars, otherVars>>

\* manager.add(tokens)
Add ==
    \E tokens \in Costs :
        LET r == add(tracker, _TOKENIZER, tokens)
        IN  /\ r.self.used_tokens >= 0 - MaxNegUsed
            /\ tracker' = r.self
            /\ lastCall' = [op |-> "add", arg |-> tokens,
                            ret |-> r.ret, raised |-> "none"]
            /\ _TOKENIZER' = r.tk
            /\ UNCHANGED <<assemblyVars, otherVars>>

\* manager.reset()
Reset ==
    /\ tracker' = reset(tracker)
    /\ lastCall' = [op |-> "reset", arg |-> 0, ret |-> TRUE, raised |-> "none"]
    /\ UNCHANGED <<_TOKENIZER, assemblyVars, otherVars>>

NextTracker == Construct \/ CanAdd \/ Add \/ Reset

SpecTracker == InitTracker /\ [][NextTracker]_vars

-----------------------------------------------------------------------------
(* Placement strategies: context_strategies.py *)

MaxDocs == 3           \* the document list has 0 .. MaxDocs documents
MaxScore == 3          \* similarity scores range over 1 .. MaxScore
MaxAvailSteps == 6     \* token_limit ranges up to StrategyOverhead + 2 * MaxAvailSteps
MaxLongDocs == 9       \* length of the uniform document lists of SpecLong

StrategyOverhead == 50
Separator == <<"\n\n", "---", "\n\n">>

\* doc.get('title', 'Untitled')
Title(doc) == IF "title" \in DOMAIN doc THEN doc.title ELSE <<"Untitled">>

\* f"Document: {doc.get('title', 'Untitled')}\n\n{doc['content']}"
DocText(doc) == <<"Document:">> \o Title(doc) \o <<"\n\n">> \o doc.content

\* separator.join(parts)
RECURSIVE join(_, _)
join(separator, parts) ==
    IF parts = <<>> THEN <<>>
    ELSE IF Len(parts) = 1 THEN parts[1]
    ELSE parts[1] \o separator \o join(separator, Tail(parts))

\* for doc in documents: the documents by position
Listed(docs) == [i \in 1..Len(docs) |-> [doc |-> docs[i], pos |-> i]]

\* ranked_docs.append((doc, similarity.item())) for every document;
\* pos records which element of the caller's list the tuple holds
RankedDocs(docs, sc) ==
    [i \in 1..Len(docs) |-> [doc |-> docs[i], score |-> sc[i], pos |-> i]]

\* ascending where descending was asked for, and the other way round
Precedes_flipped(a, b, reverse) ==
    IF reverse THEN a.score < b.score ELSE a.score > b.score

\* order of two keys under list.sort(key=..., reverse=...)
Precedes(a, b, reverse) ==
    IF reverse THEN a.score > b.score ELSE a.score < b.score

\* insertion that puts a document before the documents of equal score
RECURSIVE Insert_unstable(_, _, _)
Insert_unstable(x, sorted, reverse) ==
    IF sorted = <<>> THEN <<x>>
    ELSE IF Precedes(x, sorted[1], reverse) \/ x.score = sorted[1].score
    THEN <<x>> \o sorted
    ELSE <<sorted[1]>> \o Insert_unstable(x, Tail(sorted), reverse)

RECURSIVE Insert(_, _, _)
Insert(x, sorted, reverse) ==
    IF sorted = <<>> THEN <<x>>
    ELSE IF Precedes(x, sorted[1], reverse) THEN <<x>> \o sorted
    ELSE <<sorted[1]>> \o Insert(x, Tail(sorted), reverse)

\* list.sort(key=lambda x: x[1], reverse=reverse): stable in both directions
RECURSIVE sort(_, _)
sort(list, reverse) ==
    IF list = <<>> THEN <<>>
    ELSE Insert(list[Len(list)],
                sort(SubSeq(list, 1, Len(list) - 1), reverse), reverse)

\* the admission loop that goes on to the next document after a refusal
RECURSIVE AdmitLoop_skip(_, _, _, _)
AdmitLoop_skip(items, budget_manager, tk, included) ==
    IF items = <<>>
    THEN [budget_manager |-> budget_manager, tk |-> tk, included |-> included]
    ELSE LET doc_text == DocText(items[1].doc)
             c == can_add(budget_manager, tk, PyStr(doc_text))
             a == add(budget_manager, c.tk, PyStr(doc_text))
         IN  IF c.ret
             THEN AdmitLoop_skip(Tail(items), a.self, a.tk,
                                 Append(included, items[1]))
             ELSE AdmitLoop_skip(Tail(items), budget_manager, c.tk, included)

\* for doc in ...: if budget_manager.can_add(doc_text): add, append; else: break
RECURSIVE AdmitLoop(_, _, _, _)
AdmitLoop(items, budget_manager, tk, included) ==
    IF items = <<>>
    THEN [budget_manager |-> budget_manager, tk |-> tk, included |-> included]
    ELSE LET doc_text == DocText(items[1].doc)
             c == can_add(budget_manager, tk, PyStr(doc_text))
             a == add(budget_manager, c.tk, PyStr(doc_text))
         IN  IF c.ret
             THEN AdmitLoop(Tail(items), a.self, a.tk,
                            Append(included, items[1]))
             ELSE [budget_manager |-> budget_manager, tk |-> c.tk,
                   included |-> included]

\* what a strategy call yields: the returned string, its parts, the
\* positions (in the caller's list) of the documents the parts render, the
\* positions in the order the admission loop went through them, and the
\* budget tracker and tokenizer global the call leaves behind
Returned(ordered, loop, candidates) ==
    [raised         |-> "none",
     result         |-> join(Separator, [i \in 1..Len(ordered) |->
                                            DocText(ordered[i].doc)]),
     parts          |-> [i \in 1..Len(ordered) |-> DocText(ordered[i].doc)],
     admitted       |-> [i \in 1..Len(ordered) |-> ordered[i].pos],
     ranked         |-> [i \in 1..Len(candidates) |-> candidates[i].pos],
     budget_manager |-> loop.budget_manager,
     tk             |-> loop.tk]

\* raise ValueError("Embedder required for ... strategy")
Raised(exception, tk) ==
    [raised         |-> exception,
     result         |-> <<>>,
     parts          |-> <<>>,
     admitted       |-> <<>>,
     ranked         |-> <<>>,
     budget_manager |-> None,
     tk             |-> tk]

\* naive assembly that goes on with the tracker its previous call left
naive_shared_tracker(docs, limit, tk) ==
    LET loop == AdmitLoop(Listed(docs),
                          IF call.strategy = "naive"
                          THEN call.budget_manager
                          ELSE TokenBudgetManager(limit, StrategyOverhead,
                                                  "cl100k_base"),
                          tk, <<>>)
    IN  Returned(loop.included, loop, Listed(docs))

\* naive assembly that raises when a document does not fit
naive_raises_oversized(docs, limit, tk) ==
    LET loop == AdmitLoop(Listed(docs),
                          TokenBudgetManager(limit, StrategyOverhead,
                                             "cl100k_base"),
                          tk, <<>>)
    IN  IF Len(loop.included) < Len(docs)
        THEN Raised("ValueError", loop.tk)
        ELSE Returned(loop.included, loop, Listed(docs))

naive_context_assembly(docs, limit, tk) ==
    LET loop == AdmitLoop(Listed(docs),
                          TokenBudgetManager(limit, StrategyOverhead,
                                             "cl100k_base"),
                          tk, <<>>)
    IN  Returned(loop.included, loop, Listed(docs))

\* primacy that falls back to naive assembly when no embedder is given
primacy_naive_fallback(docs, sc, limit, emb, tk) ==
    IF ~emb THEN naive_context_assembly(docs, limit, tk)
    ELSE LET ranked_docs == sort(RankedDocs(docs, sc), TRUE)
             loop == AdmitLoop(ranked_docs,
                               TokenBudgetManager(limit, StrategyOverhead,
                                                  "cl100k_base"),
                               tk, <<>>)
         IN  Returned(loop.included, loop, ranked_docs)

primacy_context_assembly(docs, sc, limit, emb, tk) ==
    IF ~emb THEN Raised("ValueError", tk)
    ELSE LET ranked_docs == sort(RankedDocs(docs, sc), TRUE)
             loop == AdmitLoop(ranked_docs,
                               TokenBudgetManager(limit, StrategyOverhead,
                                                  "cl100k_base"),
                               tk, <<>>)
         IN  Returned(loop.included, loop, ranked_docs)

\* recency that ranks the most relevant first
recency_descending(docs, sc, limit, emb, tk) ==
    IF ~emb THEN Raised("ValueError", tk)
    ELSE LET ranked_docs == sort(RankedDocs(docs, sc), TRUE)
             loop == AdmitLoop(ranked_docs,
                               TokenBudgetManager(limit, StrategyOverhead,
                                                  "cl100k_base"),
                               tk, <<>>)
         IN  Returned(loop.included, loop, ranked_docs)

recency_context_assembly(docs, sc, limit, emb, tk) ==
    IF ~emb THEN Raised("ValueError", tk)
    ELSE LET ranked_docs == sort(RankedDocs(docs, sc), FALSE)
             loop == AdmitLoop(ranked_docs,
                               TokenBudgetManager(limit, StrategyOverhead,
                                                  "cl100k_base"),
                               tk, <<>>)
         IN  Returned(loop.included, loop, ranked_docs)

Max(a, b) == IF a >= b THEN a ELSE b

\* Python slice list[lo:hi] for 0 <= lo, 0 <= hi
Slice(list, lo, hi) ==
    SubSeq(list, lo + 1, IF hi <= Len(list) THEN hi ELSE Len(list))

\* sandwich that gives the start group the larger half
sandwich_ceil_split(docs, sc, limit, emb, tk) ==
    IF ~emb THEN Raised("ValueError", tk)
    ELSE LET ranked_docs == sort(RankedDocs(docs, sc), TRUE)
             loop == AdmitLoop(ranked_docs,
                               TokenBudgetManager(limit, StrategyOverhead,
                                                  "cl100k_base"),
                               tk, <<>>)
             docs_to_include == loop.included
             num_high_relevance == Max(2, Len(docs_to_include) \div 3)
             half == (num_high_relevance + 1) \div 2
             start_docs == Slice(docs_to_include, 0, half)
             end_docs == Slice(docs_to_include, half, num_high_relevance)
             middle_docs == Slice(docs_to_include, num_high_relevance,
                                  Len(docs_to_include))
         IN  IF Len(docs_to_include) < 3
             THEN Returned(docs_to_include, loop, ranked_docs)
             ELSE Returned(start_docs \o middle_docs \o end_docs, loop,
                           ranked_docs)

\* sandwich whose fallback emits the fitting documents least relevant first
sandwich_reversed_fallback(docs, sc, limit, emb, tk) ==
    IF ~emb THEN Raised("ValueError", tk)
    ELSE LET ranked_docs == sort(RankedDocs(docs, sc), TRUE)
             loop == AdmitLoop(ranked_docs,
                               TokenBudgetManager(limit, StrategyOverhead,
                                                  "cl100k_base"),
                               tk, <<>>)
             docs_to_include == loop.included
             num_high_relevance == Max(2, Len(docs_to_include) \div 3)
             start_docs == Slice(docs_to_include, 0, num_high_relevance \div 2)
             end_docs == Slice(docs_to_include, num_high_relevance \div 2,
                               num_high_relevance)
             middle_docs == Slice(docs_to_include, num_high_relevance,
                                  Len(docs_to_include))
         IN  IF Len(docs_to_include) < 3
             THEN Returned([i \in 1..Len(docs_to_include) |->
                               docs_to_include[Len(docs_to_include) + 1 - i]],
                           loop, ranked_docs)
             ELSE Returned(start_docs \o middle_docs \o end_docs, loop,
                           ranked_docs)

\* sandwich whose end group starts at the front of the list again
sandwich_overlap(docs, sc, limit, emb, tk) ==
    IF ~emb THEN Raised("ValueError", tk)
    ELSE LET ranked_docs == sort(RankedDocs(docs, sc), TRUE)
             loop == AdmitLoop(ranked_docs,
                               TokenBudgetManager(limit, StrategyOverhead,
                                                  "cl100k_base"),
                               tk, <<>>)
             docs_to_include == loop.included
             num_high_relevance == Max(2, Len(docs_to_include) \div 3)
             start_docs == Slice(docs_to_include, 0, num_high_relevance \div 2)
             end_docs == Slice(docs_to_include, 0, num_high_relevance)
             middle_docs == Slice(docs_to_include, num_high_relevance,
                                  Len(docs_to_include))
         IN  IF Len(docs_to_include) < 3
             THEN Returned(docs_to_include, loop, ranked_docs)
             ELSE Returned(start_docs \o middle_docs \o end_docs, loop,
                           ranked_docs)

\* sandwich that returns the start and end groups only
sandwich_drops_middle(docs, sc, limit, emb, tk) ==
    IF ~emb THEN Raised("ValueError", tk)
    ELSE LET ranked_docs == sort(RankedDocs(docs, sc), TRUE)
             loop == AdmitLoop(ranked_docs,
                               TokenBudgetManager(limit, StrategyOverhead,
                                                  "cl100k_base"),
                               tk, <<>>)
             docs_to_include == loop.included
             num_high_relevance == Max(2, Len(docs_to_include) \div 3)
         IN  IF Len(docs_to_include) < 3
             THEN Returned(docs_to_include, loop, ranked_docs)
             ELSE Returned(Slice(docs_to_include, 0, num_high_relevance),
                           loop, ranked_docs)

sandwich_context_assembly(docs, sc, limit, emb, tk) ==
    IF ~emb THEN Raised("ValueError", tk)
    ELSE LET ranked_docs == sort(RankedDocs(docs, sc), TRUE)
             loop == AdmitLoop(ranked_docs,
                               TokenBudgetManager(limit, StrategyOverhead,
                                                  "cl100k_base"),
                               tk, <<>>)
             docs_to_include == loop.included
             num_high_relevance == Max(2, Len(docs_to_include) \div 3)
             start_docs == Slice(docs_to_include, 0, num_high_relevance \div 2)
             end_docs == Slice(docs_to_include, num_high_relevance \div 2,
                               num_high_relevance)
             middle_docs == Slice(docs_to_include, num_high_relevance,
                                  Len(docs_to_include))
         IN  IF Len(docs_to_include) < 3
             THEN Returned(docs_to_include, loop, ranked_docs)
             ELSE Returned(start_docs \o middle_docs \o end_docs, loop,
                           ranked_docs)

-----------------------------------------------------------------------------
(* Inputs and calls of the strategies *)

\* a short titled document and a long one without a title
ShortDoc == [title |-> <<"T">>, content |-> <<"a">>]
LongDoc == [content |-> <<"b", "b", "b">>]
DocPool == {ShortDoc, LongDoc}

DocLists == UNION {[1..n -> DocPool] : n \in 0..MaxDocs}
\* one limit below the overhead, then every second limit from the overhead
\* on: the rendered documents of DocPool have even token counts
TokenLimits ==
    {StrategyOverhead - 1}
        \cup {StrategyOverhead + 2 * a : a \in 0..MaxAvailSteps}

\* the budget tracker under test, idle while strategies are called
TrackerIdle ==
    /\ tracker = None
    /\ lastCall = [op |-> "none"]

InitAssembly ==
    /\ _TOKENIZER = None
    /\ OthersIdle
    /\ TrackerIdle
    /\ documents \in DocLists
    /\ scores \in [1..Len(documents) -> 1..MaxScore]
    /\ token_limit \in TokenLimits
    /\ embedder \in BOOLEAN
    /\ call = [strategy |-> "none"]

\* scores in three blocks: the first p documents lowest, the next up to q
\* highest, the rest in between
BlockScores(n, p, q) ==
    [i \in 1..n |-> IF i <= p THEN 1 ELSE IF i <= q THEN 3 ELSE 2]

\* uniform lists long enough for every split of the sandwich
InitLong ==
    /\ _TOKENIZER = None
    /\ OthersIdle
    /\ TrackerIdle
    /\ \E n \in 0..MaxLongDocs :
          /\ documents = [i \in 1..n |-> ShortDoc]
          /\ \E p \in 0..n, q \in 0..n :
                p <= q /\ scores = BlockScores(n, p, q)
          /\ token_limit \in {StrategyOverhead
                                + j * Len(DocText(ShortDoc)) : j \in 0..n}
    /\ embedder = TRUE
    /\ call = [strategy |-> "none"]

Outcome(strategy, r) ==
    [strategy       |-> strategy,
     raised         |-> r.raised,
     result         |-> r.result,
     parts          |-> r.parts,
     admitted       |-> r.admitted,
     ranked         |-> r.ranked,
     budget_manager |-> r.budget_manager]

Naive ==
    LET r == naive_context_assembly(documents, token_limit, _TOKENIZER)
    IN  /\ call' = Outcome("naive", r)
        /\ _TOKENIZER' = r.tk
        /\ UNCHANGED <<documents, scores, token_limit, embedder, trackerVars,
                       otherVars>>

\* primacy call that sorts the caller's list itself
Primacy_sorts_input ==
    LET r == primacy_context_assembly(documents, scores, token_limit,
                                      embedder, _TOKENIZER)
    IN  /\ call' = Outcome("primacy", r)
        /\ _TOKENIZER' = r.tk
        /\ documents' = [i \in 1..Len(r.ranked) |-> documents[r.ranked[i]]]
        /\ scores' = [i \in 1..Len(r.ranked) |-> scores[r.ranked[i]]]
        /\ r.raised = "none"
        /\ UNCHANGED <<token_limit, embedder, trackerVars, otherVars>>

Primacy ==
    LET r == primacy_context_assembly(documents, scores, token_limit,
                                      embedder, _TOKENIZER)
    IN  /\ call' = Outcome("primacy", r)
        /\ _TOKENIZER' = r.tk
        /\ UNCHANGED <<documents, scores, token_limit, embedder, trackerVars,
                       otherVars>>

Recency ==
    LET r == recency_context_assembly(documents, scores, token_limit,
                                      embedder, _TOKENIZER)
    IN  /\ call' = Outcome("recency", r)
        /\ _TOKENIZER' = r.tk
        /\ UNCHANGED <<documents, scores, token_limit, embedder, trackerVars,
                       otherVars>>

Sandwich ==
    LET r == sandwich_context_assembly(documents, scores, token_limit,
                                       embedder, _TOKENIZER)
    IN  /\ call' = Outcome("sandwich", r)
        /\ _TOKENIZER' = r.tk
        /\ UNCHANGED <<documents, scores, token_limit, embedder, trackerVars,
                       otherVars>>

Next == Naive \/ Primacy \/ Recency \/ Sandwich

Spec == InitAssembly /\ [][Next]_vars

SpecLong == InitLong /\ [][Next]_vars

-----------------------------------------------------------------------------
(* Strategy invocations running side by side, one loop iteration at a time *)

MaxSharedDocs == 3     \* documents handed to the concurrent invocations

Invocations == {1, 2}
Strategies == {"naive", "primacy", "recency", "sandwich"}

\* the locals of an invocation that has not been called yet
NotCalled == [pc |-> "idle"]

\* up to the construction of the tracker: the embedder test, the ranking
\* and budget_manager = TokenBudgetManager(max_tokens=token_limit, overhead=50)
Enter(strategy, docs, sc, limit, emb) ==
    IF strategy # "naive" /\ ~emb
    THEN [pc |-> "done", strategy |-> strategy,
          outcome |-> Raised("ValueError", None)]
    ELSE [pc             |-> "loop",
          strategy       |-> strategy,
          ranked_docs    |-> IF strategy = "naive" THEN Listed(docs)
                             ELSE sort(RankedDocs(docs, sc),
                                       strategy # "recency"),
          i              |-> 1,
          budget_manager |-> TokenBudgetManager(limit, StrategyOverhead,
                                                "cl100k_base"),
          included       |-> <<>>]

\* one iteration of the admission loop on a tracker; the loop is left
\* when the candidates are used up or can_add refuses
Iterate(frame, budget_manager, tk) ==
    IF frame.i > Len(frame.ranked_docs)
    THEN [frame |-> [frame EXCEPT !.pc = "assemble"],
          budget_manager |-> budget_manager, tk |-> tk]
    ELSE LET doc_text == DocText(frame.ranked_docs[frame.i].doc)
             c == can_add(budget_manager, tk, PyStr(doc_text))
             a == add(budget_manager, c.tk, PyStr(doc_text))
         IN  IF c.ret
             THEN [frame |-> [frame EXCEPT
                                 !.i = @ + 1,
                                 !.included =
                                     Append(@, frame.ranked_docs[frame.i])],
                   budget_manager |-> a.self, tk |-> a.tk]
             ELSE [frame |-> [frame EXCEPT !.pc = "assemble"],
                   budget_manager |-> budget_manager, tk |-> c.tk]

\* the order in which a strategy renders what it admitted
Ordered(strategy, docs_to_include) ==
    LET num_high_relevance == Max(2, Len(docs_to_include) \div 3)
        start_docs == Slice(docs_to_include, 0, num_high_relevance \div 2)
        end_docs == Slice(docs_to_include, num_high_relevance \div 2,
                          num_high_relevance)
        middle_docs == Slice(docs_to_include, num_high_relevance,
                             Len(docs_to_include))
    IN  IF strategy = "sandwich" /\ Len(docs_to_include) >= 3
        THEN start_docs \o middle_docs \o end_docs
        ELSE docs_to_include

\* the join and return of an invocation
Leave(frame, tk) ==
    [pc       |-> "done",
     strategy |-> frame.strategy,
     outcome  |-> Returned(Ordered(frame.strategy, frame.included),
                           [budget_manager |-> frame.budget_manager,
                            tk |-> tk],
                           frame.ranked_docs)]

SharedLimits ==
    {StrategyOverhead - 1}
        \cup {StrategyOverhead + 4 * a : a \in 0..MaxSharedDocs}

InitShared ==
    /\ _TOKENIZER = None
    /\ TrackerIdle
    /\ files = None
    /\ verifier = None
    /\ \E n \in 0..MaxSharedDocs :
          /\ documents \in [1..n -> DocPool]
          /\ \E p \in 0..n, q \in 0..n :
                p <= q /\ scores = BlockScores(n, p, q)
    /\ token_limit \in SharedLimits
    /\ embedder \in BOOLEAN
    /\ call = [strategy |-> "none"]
    /\ inflight = [p \in Invocations |-> NotCalled]

\* invocation p is called, or called again after it returned
Begin(p) ==
    /\ inflight[p].pc \in {"idle", "done"}
    /\ \E strategy \in Strategies :
          inflight' = [inflight EXCEPT
                          ![p] = Enter(strategy, documents, scores,
                                       token_limit, embedder)]
    /\ UNCHANGED <<_TOKENIZER, trackerVars, assemblyVars, files, verifier>>

\* a loop iteration that charges the tracker of the first invocation
\* in flight instead of its own
Admit_shared_tracker(p) ==
    /\ inflight[p].pc = "loop"
    /\ LET owner == CHOOSE o \in Invocations :
                        /\ inflight[o].pc \in {"loop", "assemble"}
                        /\ \A o2 \in Invocations :
                              inflight[o2].pc \in {"loop", "assemble"}
                                  => o <= o2
           r == Iterate(inflight[p], inflight[owner].budget_manager,
                        _TOKENIZER)
       IN  /\ inflight' =
                 [q \in Invocations |->
                     IF q = p /\ q = owner
                     THEN [r.frame EXCEPT !.budget_manager = r.budget_manager]
                     ELSE IF q = p THEN r.frame
                     ELSE IF q = owner
                     THEN [inflight[q] EXCEPT
                              !.budget_manager = r.budget_manager]
                     ELSE inflight[q]]
           /\ _TOKENIZER' = r.tk
    /\ UNCHANGED <<trackerVars, assemblyVars, files, verifier>>

\* invocation p runs one iteration of its loop on its own tracker
Admit(p) ==
    /\ inflight[p].pc = "loop"
    /\ LET r == Iterate(inflight[p], inflight[p].budget_manager, _TOKENIZER)
       IN  /\ inflight' =
                 [inflight EXCEPT
                     ![p] = [r.frame EXCEPT
                                !.budget_manager = r.budget_manager]]
           /\ _TOKENIZER' = r.tk
    /\ UNCHANGED <<trackerVars, assemblyVars, files, verifier>>

\* invocation p joins its parts and returns
Assemble(p) ==
    /\ inflight[p].pc = "assemble"
    /\ inflight' = [inflight EXCEPT ![p] = Leave(inflight[p], _TOKENIZER)]
    /\ UNCHANGED <<_TOKENIZER, trackerVars, assemblyVars, files, verifier>>

NextShared == \E p \in Invocations : Begin(p) \/ Admit(p) \/ Assemble(p)

SpecShared == InitShared /\ [][NextShared]_vars

-----------------------------------------------------------------------------
(* Context formatter: helpers.format_context *)

\* part built for documents[i] of enumerate(documents), i counted from 0,
\* with a title line numbered from 0 as well
FormatPart_from_zero(i, doc, include_titles) ==
    IF include_titles /\ "title" \in DOMAIN doc
    THEN <<"Document", ToString(i), ":">> \o doc.title \o <<"\n\n">>
             \o doc.content
    ELSE doc.content

\* part built for documents[i] of enumerate(documents), i counted from 0
FormatPart(i, doc, include_titles) ==
    IF include_titles /\ "title" \in DOMAIN doc
    THEN <<"Document", ToString(i + 1), ":">> \o doc.title \o <<"\n\n">>
             \o doc.content
    ELSE doc.content

format_context(docs, include_titles, separator) ==
    join(separator,
         [k \in 1..Len(docs) |-> FormatPart(k - 1, docs[k], include_titles)])

\* a document whose title is the empty string
EmptyTitleDoc == [title |-> <<>>, content |-> <<"c", "c">>]
FormatDocPool == DocPool \cup {EmptyTitleDoc}
FormatDocLists == UNION {[1..n -> FormatDocPool] : n \in 0..MaxDocs}
Separators == {Separator, <<"|">>}

InitFormat ==
    /\ _TOKENIZER = None
    /\ OthersIdle
    /\ TrackerIdle
    /\ documents \in FormatDocLists
    /\ scores = <<>>
    /\ token_limit = 0
    /\ embedder = FALSE
    /\ call = [strategy |-> "none"]

FormatContext ==
    \E include_titles \in BOOLEAN, separator \in Separators :
        /\ call' = [strategy       |-> "format_context",
                    include_titles |-> include_titles,
                    separator      |-> separator,
                    parts          |-> [k \in 1..Len(documents) |->
                                           FormatPart(k - 1, documents[k],
                                                      include_titles)],
                    result         |-> format_context(documents,
                                                      include_titles,
                                                      separator)]
        /\ UNCHANGED <<_TOKENIZER, documents, scores, token_limit, embedder,
                       trackerVars, otherVars>>

NextFormat == FormatContext

SpecFormat == InitFormat /\ [][NextFormat]_vars

-----------------------------------------------------------------------------
(* Lesson verifier: verify.LessonVerifier and main *)

\* dict.get(key, default)
Get(dict, key, default) == IF key \in DOMAIN dict THEN dict[key] ELSE default

\* results.get('strategies', {}): a results file without the key is the
\* one with the empty dict
StrategiesData(results) == results.strategies

\* strategies_data.get('naive', {}).get(key, default)
NaiveGet(strategies_data, key, default) ==
    IF "naive" \in DOMAIN strategies_data
    THEN Get(strategies_data["naive"], key, default)
    ELSE default

BaseStrategies == {"naive", "primacy", "recency", "sandwich"}

\* no report generated yet
NoReport == [verification |-> [grade |-> "none"]]

\* LessonVerifier(): the empty lists of __init__, before check 1
LessonVerifier ==
    [pc            |-> "_check_results_exist",
     checks_passed |-> <<>>,
     checks_failed |-> <<>>,
     warnings      |-> <<>>,
     results       |-> None,
     error         |-> None,
     report        |-> NoReport,
     exit_code     |-> None]

\* _check_results_exist, and the branch of run_verification on its result
_check_results_exist(self, fs) ==
    IF fs.results.state = "missing"
    THEN [self EXCEPT !.checks_failed = Append(@, "results_file_exists"),
                      !.error = "Results file not found",
                      !.pc = "_generate_failure_report"]
    ELSE [self EXCEPT !.checks_passed = Append(@, "results_file_exists"),
                      !.pc = "load_results"]

\* results = load_results(...) inside try / except of run_verification
load_results(self, fs) ==
    IF fs.results.state = "corrupt"
    THEN [self EXCEPT !.error = "Error loading results",
                      !.pc = "_generate_failure_report"]
    ELSE [self EXCEPT !.results = fs.results.content,
                      !.pc = "_check_token_calculations"]

\* _check_token_calculations: every exception ends as a warning
_check_token_calculations(self, fs) ==
    LET results == self.results
        next == [self EXCEPT !.pc = "_check_strategies_implemented"]
    IN  IF fs.documents.state = "missing" \/ results.type # "dict"
        THEN [next EXCEPT !.warnings =
                 Append(@, "Token calculation verification error")]
        ELSE IF "num_documents" \notin DOMAIN results.metadata
        THEN [next EXCEPT !.warnings =
                 Append(@, "Token calculation metadata incomplete")]
        ELSE IF results.metadata.num_documents = fs.documents.count
        THEN [next EXCEPT !.checks_passed = Append(@, "token_calculations")]
        ELSE [next EXCEPT !.checks_failed = Append(@, "token_calculations")]

\* _check_strategies_implemented; results.get raises on a non-dict
_check_strategies_implemented(self) ==
    IF self.results.type # "dict"
    THEN [self EXCEPT !.pc = "raised"]
    ELSE LET strategies_data == StrategiesData(self.results)
             missing_strategies == BaseStrategies \ DOMAIN strategies_data
             next == [self EXCEPT !.pc = "_check_metrics_recorded"]
         IN  IF missing_strategies # {}
             THEN [next EXCEPT !.checks_failed =
                      Append(@, "strategies_implemented")]
             ELSE [next EXCEPT !.checks_passed =
                      Append(@, "strategies_implemented")]

\* _check_metrics_recorded
_check_metrics_recorded(self) ==
    LET strategies_data == StrategiesData(self.results)
        all_metrics_complete ==
            \A strategy_name \in DOMAIN strategies_data :
                {"accuracy", "avg_tokens"}
                    \subseteq DOMAIN strategies_data[strategy_name]
        next == [self EXCEPT !.pc = "_check_optimization"]
    IN  IF all_metrics_complete
        THEN [next EXCEPT !.checks_passed = Append(@, "metrics_recorded")]
        ELSE [next EXCEPT !.checks_failed = Append(@, "metrics_recorded")]

\* accuracy_improvement >= 0.10 or token_reduction >= 0.20 for one
\* optimization strategy, in exact arithmetic
MeetsThreshold(strategies_data, opt_name) ==
    LET baseline_accuracy == NaiveGet(strategies_data, "accuracy", 0)
        opt_data == strategies_data[opt_name]
        opt_accuracy == Get(opt_data, "accuracy", 0)
        opt_tokens == Get(opt_data, "avg_tokens", 0)
        baseline_tokens == NaiveGet(strategies_data, "avg_tokens", 1)
    IN  \/ /\ baseline_accuracy > 0
           /\ 10 * (opt_accuracy - baseline_accuracy) >= baseline_accuracy
        \/ /\ baseline_tokens > 0
           /\ 5 * (baseline_tokens - opt_tokens) >= baseline_tokens

\* _check_optimization
_check_optimization(self) ==
    LET strategies_data == StrategiesData(self.results)
        optimization_strategies == DOMAIN strategies_data \ BaseStrategies
        improvement_found ==
            \E opt_name \in optimization_strategies :
                MeetsThreshold(strategies_data, opt_name)
        next == [self EXCEPT !.pc = "_check_comparison_analysis"]
    IN  IF optimization_strategies = {} \/ ~improvement_found
        THEN [next EXCEPT !.checks_failed =
                 Append(@, "optimization_implemented")]
        ELSE [next EXCEPT !.checks_passed =
                 Append(@, "optimization_implemented")]

\* _check_comparison_analysis
_check_comparison_analysis(self) ==
    LET strategies_data == StrategiesData(self.results)
        warned == IF Cardinality(DOMAIN strategies_data) < 5
                  THEN Append(self.warnings, "Fewer strategies than expected")
                  ELSE self.warnings
    IN  [self EXCEPT !.warnings = warned,
                     !.checks_passed = Append(@, "comparison_analysis"),
                     !.pc = "_generate_final_report"]

\* any(c['check'] == check for c in self.checks_passed)
Passed(self, check) ==
    \E i \in 1..Len(self.checks_passed) : self.checks_passed[i] = check

Status(ok) == IF ok THEN "PASS" ELSE "FAIL"

\* final report whose grade only asks for one passed check
_generate_final_report_lenient(self) ==
    LET strategies_data == StrategiesData(self.results)
        overall_grade == Status(Len(self.checks_passed) > 0)
    IN  [self EXCEPT
            !.pc = "main",
            !.report =
                [verification |->
                    [grade         |-> overall_grade,
                     checks_passed |-> Len(self.checks_passed),
                     checks_total  |-> Len(self.checks_passed)
                                           + Len(self.checks_failed),
                     failed        |-> self.checks_failed,
                     warnings      |-> self.warnings],
                 tasks_completed |->
                    [token_budget_analysis |->
                        Status(Passed(self, "token_calculations")),
                     naive_implementation |->
                        Status("naive" \in DOMAIN strategies_data),
                     strategic_placement |->
                        Status({"primacy", "recency", "sandwich"}
                                   \subseteq DOMAIN strategies_data),
                     optimization |->
                        Status(Passed(self, "optimization_implemented"))],
                 strategies_tested |-> Cardinality(DOMAIN strategies_data)]]

\* _generate_final_report
_generate_final_report(self) ==
    LET strategies_data == StrategiesData(self.results)
        overall_grade == Status(Len(self.checks_failed) = 0)
    IN  [self EXCEPT
            !.pc = "main",
            !.report =
                [verification |->
                    [grade         |-> overall_grade,
                     checks_passed |-> Len(self.checks_passed),
                     checks_total  |-> Len(self.checks_passed)
                                           + Len(self.checks_failed),
                     failed        |-> self.checks_failed,
                     warnings      |-> self.warnings],
                 tasks_completed |->
                    [token_budget_analysis |->
                        Status(Passed(self, "token_calculations")),
                     naive_implementation |->
                        Status("naive" \in DOMAIN strategies_data),
                     strategic_placement |->
                        Status({"primacy", "recency", "sandwich"}
                                   \subseteq DOMAIN strategies_data),
                     optimization |->
                        Status(Passed(self, "optimization_implemented"))],
                 strategies_tested |-> Cardinality(DOMAIN strategies_data)]]

\* _generate_failure_report(error_message)
_generate_failure_report(self) ==
    [self EXCEPT
        !.pc = "main",
        !.report = [verification |-> [grade         |-> "FAIL",
                                      error         |-> self.error,
                                      checks_passed |-> 0,
                                      checks_total  |-> 0]]]

\* main(): sys.exit(0 if grade == 'PASS' else 1); an exception that left
\* run_verification ends the interpreter with status 1
main(self) ==
    IF self.pc = "raised"
    THEN [self EXCEPT !.pc = "exited", !.exit_code = 1]
    ELSE [self EXCEPT
             !.pc = "exited",
             !.exit_code = IF self.report.verification.grade = "PASS"
                           THEN 0 ELSE 1]

-----------------------------------------------------------------------------
(* Inputs and steps of a verifier run *)

MaxSourceDocs == 1     \* document counts range over 0 .. MaxSourceDocs

StrategyNames == BaseStrategies \cup {"compressed"}
FullMetrics == [accuracy |-> 10, avg_tokens |-> 10]
NaiveData == {FullMetrics, [accuracy |-> 10]}
\* better accuracy, fewer tokens, no gain, a gain below both thresholds
OptimizationData ==
    {[accuracy |-> 11, avg_tokens |-> 10], [accuracy |-> 10, avg_tokens |-> 8],
     FullMetrics, [accuracy |-> 10, avg_tokens |-> 9]}

StrategyData(name) ==
    IF name = "naive" THEN NaiveData
    ELSE IF name \in BaseStrategies THEN {FullMetrics}
    ELSE OptimizationData

\* the 'strategies' dict of the results file
StrategyDicts ==
    UNION {{d \in [S -> NaiveData \cup OptimizationData] :
               \A name \in S : d[name] \in StrategyData(name)} :
           S \in SUBSET StrategyNames}

\* the 'metadata' dict, with or without 'num_documents'
Metadata ==
    {[completion_time_minutes |-> 30]}
        \cup {[completion_time_minutes |-> 30, num_documents |-> n] :
                 n \in 0..MaxSourceDocs}

\* progress/lesson_results.json: absent, not JSON, a JSON list, or a dict
ResultsFiles ==
    {[state |-> "missing"], [state |-> "corrupt"],
     [state |-> "present", content |-> [type |-> "list"]]}
        \cup {[state   |-> "present",
               content |-> [type |-> "dict", metadata |-> m,
                            strategies |-> d]] :
                 m \in Metadata, d \in StrategyDicts}

\* data/source_documents.json: absent or a list of documents
DocumentFiles ==
    {[state |-> "missing"]}
        \cup {[state |-> "present", count |-> n] : n \in 0..MaxSourceDocs}

InitVerify ==
    /\ _TOKENIZER = None
    /\ TrackerIdle
    /\ AssemblyIdle
    /\ inflight = <<>>
    /\ files \in [results : ResultsFiles, documents : DocumentFiles]
    /\ verifier = LessonVerifier

CheckResultsExist ==
    /\ verifier.pc = "_check_results_exist"
    /\ verifier' = _check_results_exist(verifier, files)
    /\ UNCHANGED <<_TOKENIZER, trackerVars, assemblyVars, inflight, files>>

LoadResults ==
    /\ verifier.pc = "load_results"
    /\ verifier' = load_results(verifier, files)
    /\ UNCHANGED <<_TOKENIZER, trackerVars, assemblyVars, inflight, files>>

GenerateFailureReport ==
    /\ verifier.pc = "_generate_failure_report"
    /\ verifier' = _generate_failure_report(verifier)
    /\ UNCHANGED <<_TOKENIZER, trackerVars, assemblyVars, inflight, files>>

CheckTokenCalculations ==
    /\ verifier.pc = "_check_token_calculations"
    /\ verifier' = _check_token_calculations(verifier, files)
    /\ UNCHANGED <<_TOKENIZER, trackerVars, assemblyVars, inflight, files>>

CheckStrategiesImplemented ==
    /\ verifier.pc = "_check_strategies_implemented"
    /\ verifier' = _check_strategies_implemented(verifier)
    /\ UNCHANGED <<_TOKENIZER, trackerVars, assemblyVars, inflight, files>>

CheckMetricsRecorded ==
    /\ verifier.pc = "_check_metrics_recorded"
    /\ verifier' = _check_metrics_recorded(verifier)
    /\ UNCHANGED <<_TOKENIZER, trackerVars, assemblyVars, inflight, files>>

CheckOptimization ==
    /\ verifier.pc = "_check_optimization"
    /\ verifier' = _check_optimization(verifier)
    /\ UNCHANGED <<_TOKENIZER, trackerVars, assemblyVars, inflight, files>>

CheckComparisonAnalysis ==
    /\ verifier.pc = "_check_comparison_analysis"
    /\ verifier' = _check_comparison_analysis(verifier)
    /\ UNCHANGED <<_TOKENIZER, trackerVars, assemblyVars, inflight, files>>

GenerateFinalReport ==
    /\ verifier.pc = "_generate_final_report"
    /\ verifier' = _generate_final_report(verifier)
    /\ UNCHANGED <<_TOKENIZER, trackerVars, assemblyVars, inflight, files>>

Main ==
    /\ verifier.pc \in {"main", "raised"}
    /\ verifier' = main(verifier)
    /\ UNCHANGED <<_TOKENIZER, trackerVars, assemblyVars, inflight, files>>

NextVerify ==
    \/ CheckResultsExist
    \/ LoadResults
    \/ GenerateFailureReport
    \/ CheckTokenCalculations
    \/ CheckStrategiesImplemented
    \/ CheckMetricsRecorded
    \/ CheckOptimization
    \/ CheckComparisonAnalysis
    \/ GenerateFinalReport
    \/ Main

SpecVerify == InitVerify /\ [][NextVerify]_vars

-----------------------------------------------------------------------------
(* Properties of the budget tracker *)

ValidBudget(self) == 0 <= self.overhead /\ self.overhead <= self.max_tokens

\* the cost an argument stands for: an integer itself, a text its token
\* count under the encoding the call ends up using
CostOf(self, tk, tokens) ==
    IF tokens.type = "int"
    THEN tokens.value
    ELSE Len(tokens.value) *
         TokensPerWord(IF tk = None THEN self.model_name ELSE tk)

\* C1: a tracker created with 0 <= overhead <= ceiling never has used_tokens
\* above max_tokens - overhead, and its remaining budget is never negative,
\* whatever can_add, add and reset calls (with any integer cost) were made.
C1_BudgetInvariant ==
    ValidBudget(tracker) =>
        /\ tracker.used_tokens <= tracker.max_tokens - tracker.overhead
        /\ remaining(tracker) >= 0

\* an add succeeded and filled the budget of a valid tracker exactly
C1_Witness ==
    /\ ValidBudget(tracker)
    /\ lastCall.op = "add"
    /\ lastCall.ret
    /\ tracker.used_tokens > 0
    /\ tracker.used_tokens = tracker.max_tokens - tracker.overhead

\* C2: creating a tracker with overhead > ceiling, or with a negative
\* ceiling or overhead, fails with InvalidBudget; otherwise used = 0.
C2_CreateRejectsInvalidBudget ==
    lastCall.op = "TokenBudgetManager" =>
        IF \/ lastCall.arg[2] > lastCall.arg[1]
           \/ lastCall.arg[1] < 0
           \/ lastCall.arg[2] < 0
        THEN lastCall.raised = "InvalidBudget"
        ELSE lastCall.raised = "none" /\ tracker.used_tokens = 0

\* C3: add(cost) returns true exactly when can_add(cost) is true in the
\* state it is called in; a true add grows used_tokens by exactly cost, a
\* false add leaves used_tokens, max_tokens and overhead unchanged.
C3_AddAgreesWithCanAdd ==
    [][lastCall'.op = "add" =>
        /\ lastCall'.ret = can_add(tracker, _TOKENIZER, lastCall'.arg).ret
        /\ lastCall'.ret =>
              /\ tracker'.used_tokens =
                    tracker.used_tokens
                        + CostOf(tracker, _TOKENIZER, lastCall'.arg)
              /\ tracker'.max_tokens = tracker.max_tokens
              /\ tracker'.overhead = tracker.overhead
        /\ ~lastCall'.ret => tracker' = tracker]_vars

\* an add was refused after an earlier add had been accepted
C3_Witness ==
    /\ lastCall.op = "add"
    /\ ~lastCall.ret
    /\ tracker.used_tokens > 0

\* C4: can_add is true iff used + cost <= max_tokens - overhead (a text
\* counted in tokens first), changes no tracker field, and a can_add probe
\* does not change what any following add does.
C4_CanAddIsPure ==
    [][lastCall'.op = "can_add" =>
        /\ lastCall'.ret =
              (tracker.used_tokens + CostOf(tracker, _TOKENIZER, lastCall'.arg)
                  <= tracker.max_tokens - tracker.overhead)
        /\ tracker' = tracker
        /\ \A c \in Costs :
              /\ add(tracker', _TOKENIZER', c).self
                    = add(tracker, _TOKENIZER, c).self
              /\ add(tracker', _TOKENIZER', c).ret
                    = add(tracker, _TOKENIZER, c).ret]_vars

\* a text was probed and found to fit after an earlier add had been accepted
C4_Witness ==
    /\ lastCall.op = "can_add"
    /\ lastCall.arg.type = "str"
    /\ lastCall.arg.value # <<>>
    /\ lastCall.ret
    /\ tracker.used_tokens > 0

-----------------------------------------------------------------------------
(* Properties of the placement strategies *)

\* the strategy was called and returned a context
Called(strategy) == call.strategy = strategy /\ call.raised = "none"

Avail == token_limit - StrategyOverhead

\* token cost of documents[i]: the token count of its rendered text
DocCost(i) == Len(encode("cl100k_base", DocText(documents[i])))

\* cost of the first j documents of a sequence of positions
RECURSIVE CumCost(_, _)
CumCost(order, j) ==
    IF j = 0 THEN 0 ELSE CumCost(order, j - 1) + DocCost(order[j])

\* number of documents admitted from a sequence of positions when
\* admission stops at the first document that does not fit
FitCount(order) ==
    CHOOSE k \in 0..Len(order) :
        /\ \A j \in 1..k : CumCost(order, j) <= Avail
        /\ k < Len(order) => CumCost(order, k + 1) > Avail

InputOrder == [i \in 1..Len(documents) |-> i]

\* place of documents[i] in the descending ranking, ties in input order
RankOf(i) ==
    1 + Cardinality({j \in 1..Len(documents) :
                        \/ scores[j] > scores[i]
                        \/ scores[j] = scores[i] /\ j < i})

DescRanking ==
    [r \in 1..Len(documents) |->
        CHOOSE i \in 1..Len(documents) : RankOf(i) = r]

Reverse(seq) == [i \in 1..Len(seq) |-> seq[Len(seq) + 1 - i]]

Rendered(order) == [i \in 1..Len(order) |-> DocText(documents[order[i]])]

\* C5: whichever strategy ran, the token costs of the admitted documents
\* sum to at most token_limit - 50.
C5_AdmittedWithinLimit ==
    \A s \in Strategies :
        Called(s) =>
            CumCost(call.admitted, Len(call.admitted))
                <= token_limit - StrategyOverhead

\* C6: naive assembly returns exactly the longest prefix of the input
\* list that fits in token_limit - 50, in input order, and admits nothing
\* after the first document that does not fit.
C6_NaiveLongestPrefix ==
    Called("naive") =>
        /\ call.admitted = SubSeq(InputOrder, 1, FitCount(InputOrder))
        /\ call.parts = Rendered(call.admitted)
        /\ \A i \in 1..Len(documents) :
              CumCost(InputOrder, i) > Avail =>
                  \A j \in 1..Len(call.admitted) : call.admitted[j] < i

\* naive stopped at the second of three documents although the third alone
\* would have fitted
C6_Witness ==
    /\ Called("naive")
    /\ Len(documents) = 3
    /\ call.admitted = <<1>>
    /\ DocCost(2) > Avail
    /\ DocCost(3) <= Avail

\* C7: primacy assembly returns the longest fitting prefix of the documents
\* ranked by descending score: scores never increase along the output and
\* the first document has the highest score.
C7_PrimacyRankedPrefix ==
    Called("primacy") =>
        /\ call.admitted = SubSeq(DescRanking, 1, FitCount(DescRanking))
        /\ call.parts = Rendered(call.admitted)
        /\ \A i, j \in 1..Len(call.admitted) :
              i < j => scores[call.admitted[i]] >= scores[call.admitted[j]]
        /\ call.admitted # <<>> =>
              \A d \in 1..Len(documents) :
                  scores[call.admitted[1]] >= scores[d]

\* primacy reordered the input and stopped before the last ranked document
C7_Witness ==
    /\ Called("primacy")
    /\ Len(call.admitted) = 2
    /\ Len(documents) = 3
    /\ call.admitted[1] # 1
    /\ scores[call.admitted[1]] > scores[call.admitted[2]]

\* C8: recency returns exactly the documents primacy admits for the same
\* input, in the reverse of primacy's order, so that the most relevant
\* document is admitted and comes last.
C8_RecencyReversesPrimacy ==
    Called("recency") =>
        /\ call.parts
              = Rendered(Reverse(SubSeq(DescRanking, 1,
                                        FitCount(DescRanking))))
        /\ FitCount(DescRanking) > 0 =>
              /\ call.parts # <<>>
              /\ \A d \in 1..Len(documents) :
                    scores[call.admitted[Len(call.admitted)]] >= scores[d]

\* C9: when every document fits, recency returns all documents in
\* ascending order of relevance; with distinct scores that is the reverse
\* of the descending ranking ([dC, dB, dA] for the ranking [dA, dB, dC]).
C9_RecencyAscendingWhenAllFit ==
    (Called("recency") /\ CumCost(InputOrder, Len(documents)) <= Avail) =>
        /\ Len(call.admitted) = Len(documents)
        /\ {call.admitted[i] : i \in 1..Len(call.admitted)}
              = 1..Len(documents)
        /\ \A i, j \in 1..Len(call.admitted) :
              i < j => scores[call.admitted[i]] <= scores[call.admitted[j]]
        /\ (\A i, j \in 1..Len(documents) : i # j => scores[i] # scores[j])
              => call.admitted = Reverse(DescRanking)

\* three documents given best first all fit and come out worst first
C9_Witness ==
    /\ Called("recency")
    /\ Len(documents) = 3
    /\ CumCost(InputOrder, 3) <= Avail
    /\ scores[1] > scores[2]
    /\ scores[2] > scores[3]
    /\ call.admitted = <<3, 2, 1>>

\* C10: when n >= 3 documents fit, with fitting = [d1..dn] by descending
\* relevance and k = max(2, n // 3), sandwich returns
\* fitting[0:k//2] ++ fitting[k:n] ++ fitting[k//2:k]: the middle group in
\* its ranked order and, for odd k, the smaller half at the start
\* (d1, d4, ..., d9, d2, d3 for n = 9).
C10_SandwichSplit ==
    (Called("sandwich") /\ FitCount(DescRanking) >= 3) =>
        LET n == FitCount(DescRanking)
            fitting == SubSeq(DescRanking, 1, n)
            k == IF n \div 3 > 2 THEN n \div 3 ELSE 2
            h == k \div 2
        IN  /\ Len(call.admitted) = n
            /\ \A i \in 1..n :
                  call.admitted[i] =
                      IF i <= h THEN fitting[i]
                      ELSE IF i <= h + (n - k) THEN fitting[i - h + k]
                      ELSE fitting[i - (n - k)]
            /\ call.parts = Rendered(call.admitted)
            /\ n = 9 =>
                  call.admitted =
                      <<fitting[1], fitting[4], fitting[5], fitting[6],
                        fitting[7], fitting[8], fitting[9], fitting[2],
                        fitting[3]>>

\* nine documents whose ranking differs from the input order all fit
C10_Witness ==
    /\ Called("sandwich")
    /\ Len(call.admitted) = 9
    /\ DescRanking # InputOrder
    /\ call.admitted[1] = DescRanking[1]
    /\ call.admitted[9] = DescRanking[3]

\* C11: when fewer than three documents fit, sandwich returns what primacy
\* returns for the same documents, scores, token_limit and embedder: the
\* fitting documents most relevant first, without any split.
C11_SandwichFallsBackToPrimacy ==
    (Called("sandwich") /\ FitCount(DescRanking) < 3) =>
        LET p == primacy_context_assembly(documents, scores, token_limit,
                                          embedder, _TOKENIZER)
        IN  /\ call.result = p.result
            /\ call.parts = p.parts
            /\ call.admitted = p.admitted
            /\ call.admitted = SubSeq(DescRanking, 1, FitCount(DescRanking))

\* exactly two of three documents fit and the ranking reorders them
C11_Witness ==
    /\ Called("sandwich")
    /\ Len(documents) = 3
    /\ Len(call.admitted) = 2
    /\ call.admitted[1] > call.admitted[2]
    /\ documents[call.admitted[1]] # documents[call.admitted[2]]

RankingStrategies == {"primacy", "recency", "sandwich"}

C13_TiesKeepInputOrder ==
    \A s \in RankingStrategies :
        Called(s) =>
            /\ Len(call.ranked) = Len(documents)
            /\ {call.ranked[i] : i \in 1..Len(call.ranked)}
                  = 1..Len(documents)
            /\ \A i, j \in 1..Len(call.ranked) :
                  (i < j /\ scores[call.ranked[i]] = scores[call.ranked[j]])
                      => call.ranked[i] < call.ranked[j]
            /\ s \in {"primacy", "sandwich"} => call.ranked = DescRanking

\* primacy ranked two different documents of equal score behind a document
\* it moved to the front, and admitted the first of the two
C13_Witness ==
    /\ Called("primacy")
    /\ Len(documents) = 3
    /\ scores[1] = scores[2]
    /\ scores[3] > scores[1]
    /\ documents[1] # documents[2]
    /\ call.ranked = <<3, 1, 2>>
    /\ call.admitted = <<3, 1>>

C15_EmptyInput ==
    documents = <<>> =>
        \A s \in Strategies :
            Called(s) =>
                /\ call.result = <<>>
                /\ call.parts = <<>>
                /\ call.budget_manager.used_tokens = 0

\* sandwich ran on no documents with room in the budget
C15_Witness ==
    /\ documents = <<>>
    /\ Called("sandwich")
    /\ token_limit > StrategyOverhead

\* C16: every part of a returned context is the complete rendering of one
\* input document, no input position is rendered twice, and the returned
\* string is exactly the parts joined by the separator.
C16_WholeDocumentsOnly ==
    \A s \in Strategies :
        Called(s) =>
            /\ Len(call.parts) = Len(call.admitted)
            /\ \A i \in 1..Len(call.admitted) :
                  /\ call.admitted[i] \in 1..Len(documents)
                  /\ call.parts[i] = DocText(documents[call.admitted[i]])
            /\ \A i, j \in 1..Len(call.admitted) :
                  i # j => call.admitted[i] # call.admitted[j]
            /\ call.result = join(Separator, call.parts)

\* sandwich split three admitted documents into start, middle and end
C16_Witness ==
    /\ Called("sandwich")
    /\ Len(call.admitted) = 3
    /\ call.admitted # InputOrder
    /\ call.admitted # call.ranked

\* where the part of document i starts in a joined string
RECURSIVE PartOffset(_, _, _)
PartOffset(parts, separator, i) ==
    IF i = 1 THEN 0
    ELSE PartOffset(parts, separator, i - 1)
            + Len(parts[i - 1]) + Len(separator)

\* C17: format_context renders the document at position i of the list it
\* is given as "Document i: <title>\n\n<content>" when include_titles is set
\* and the document has a title, as its content alone otherwise; the parts
\* follow each other in the given order with the separator in between, and
\* an empty list gives the empty string.
C17_FormatContext ==
    call.strategy = "format_context" =>
        LET n == Len(documents)
            sep == call.separator
        IN  /\ Len(call.parts) = n
            /\ \A i \in 1..n :
                  call.parts[i] =
                      IF call.include_titles /\ "title" \in DOMAIN documents[i]
                      THEN <<"Document", ToString(i), ":">>
                               \o documents[i].title \o <<"\n\n">>
                               \o documents[i].content
                      ELSE documents[i].content
            /\ n = 0 => call.result = <<>>
            /\ n > 0 =>
                  Len(call.result) = PartOffset(call.parts, sep, n)
                                        + Len(call.parts[n])
            /\ \A i \in 1..n :
                  LET off == PartOffset(call.parts, sep, i)
                  IN  /\ SubSeq(call.result, off + 1,
                                off + Len(call.parts[i])) = call.parts[i]
                      /\ i < n =>
                            SubSeq(call.result,
                                   off + Len(call.parts[i]) + 1,
                                   off + Len(call.parts[i]) + Len(sep)) = sep

\* three documents formatted with titles: the second has no title, the
\* third is numbered 3
C17_Witness ==
    /\ call.strategy = "format_context"
    /\ call.include_titles
    /\ Len(documents) = 3
    /\ documents[2] = LongDoc
    /\ documents[3] = ShortDoc
    /\ call.parts[2] = <<"b", "b", "b">>
    /\ call.parts[3] = <<"Document", "3", ":", "T", "\n\n", "a">>

\* C19: no strategy call, returning or raising, changes the caller's
\* document list: its length, order and field values stay as they were.
C19_InputNotMutated ==
    [][call'.strategy \in Strategies =>
          /\ Len(documents') = Len(documents)
          /\ \A i \in 1..Len(documents) : documents'[i] = documents[i]
          /\ documents' = documents]_vars

\* recency ranked three documents into the reverse of the caller's order
C19_Witness ==
    /\ Called("recency")
    /\ Len(documents) = 3
    /\ call.ranked = <<3, 2, 1>>
    /\ documents[1] # documents[3]
    /\ call.admitted # <<>>

\* C20: a document too large to fit raises nothing: a strategy that has its
\* embedder returns the documents admitted before the first one that does
\* not fit, the empty string when the first candidate does not fit or when
\* token_limit is below 50.
C20_OversizedNeverRaises ==
    \A s \in Strategies :
        (call.strategy = s /\ (s = "naive" \/ embedder)) =>
            /\ call.raised = "none"
            /\ {call.admitted[i] : i \in 1..Len(call.admitted)}
                  = {call.ranked[i] : i \in 1..FitCount(call.ranked)}
            /\ (call.ranked # <<>> /\ DocCost(call.ranked[1]) > Avail)
                  => call.result = <<>>
            /\ token_limit < StrategyOverhead => call.result = <<>>

\* the first candidate of sandwich was too large although the second one
\* alone would have fitted
C20_Witness ==
    /\ Called("sandwich")
    /\ Len(documents) = 2
    /\ token_limit > StrategyOverhead
    /\ DocCost(call.ranked[1]) > Avail
    /\ DocCost(call.ranked[2]) <= Avail
    /\ call.result = <<>>

-----------------------------------------------------------------------------
(* Properties of the tokenizer functions *)

\* the encoding a call ended up using
EncodingUsed(model_name) ==
    IF _TOKENIZER = None THEN model_name ELSE _TOKENIZER

Fragments ==
    {Fragment([word |-> w, piece |-> p]) : w \in Words, p \in 1..2}

\* tokens of a decoded text: a fragment is the one token it was decoded from
RECURSIVE TokensOf(_, _)
TokensOf(enc, text) ==
    IF text = <<>>
    THEN 0
    ELSE (IF Head(text) \in Fragments THEN 1 ELSE TokensPerWord(enc))
             + TokensOf(enc, Tail(text))

\* C21: for every text, every budget >= 0 and both values of from_end the
\* result of truncate_to_budget has at most budget tokens, and a text that
\* already fits is returned unchanged.
C21_TruncatedFitsBudget ==
    call.strategy = "truncate_to_budget" =>
        /\ TokensOf(EncodingUsed(call.model_name), call.result) <= call.budget
        /\ call.fits => call.result = call.text

\* C23: every get_tokenizer / count_tokens call uses the encoding named by
\* its own model_name, so that the count depends on (text, model_name) only
\* and not on the model_name an earlier call asked for.
C23_CountUsesOwnEncoding ==
    /\ call.strategy = "get_tokenizer" => call.result = call.model_name
    /\ call.strategy = "count_tokens" =>
          call.result = Len(encode(call.model_name, call.text))

\* C28: truncate_to_budget on a text longer than the budget keeps the
\* leading budget tokens and drops the tail, with from_end left at its
\* default as well as with from_end = True.
C28_TruncationKeepsLeadingTokens ==
    (/\ call.strategy = "truncate_to_budget"
     /\ ~call.fits
     /\ call.budget >= 1) =>
        call.result
            = decode(Leading(encode(EncodingUsed(call.model_name), call.text),
                             call.budget))

-----------------------------------------------------------------------------
(* Further properties of the budget tracker *)

\* C22: used_tokens is never negative, whatever add and reset calls with
\* any integer cost were made on a tracker created with a valid budget.
C22_UsedNeverNegative ==
    ValidBudget(tracker) => tracker.used_tokens >= 0

\* C25: used_tokens is the sum of the costs of the accepted add calls since
\* creation or the latest reset (creation and reset give 0, an accepted add
\* adds its cost, every other call adds nothing), remaining is
\* max_tokens - overhead - used_tokens, and reset leaves max_tokens and
\* overhead as they were.
C25_ExactAccounting ==
    [][/\ remaining(tracker')
             = tracker'.max_tokens - tracker'.overhead - tracker'.used_tokens
       /\ tracker'.used_tokens =
             CASE lastCall'.op \in {"TokenBudgetManager", "reset"} -> 0
               [] lastCall'.op = "add" /\ lastCall'.ret ->
                     tracker.used_tokens
                         + CostOf(tracker, _TOKENIZER, lastCall'.arg)
               [] OTHER -> tracker.used_tokens
       /\ lastCall'.op = "reset" =>
             /\ tracker'.max_tokens = tracker.max_tokens
             /\ tracker'.overhead = tracker.overhead]_vars

\* a second add was accepted on a tracker that reserves an overhead
C25_Witness ==
    /\ lastCall.op = "add"
    /\ lastCall.ret
    /\ lastCall.arg.type = "int"
    /\ lastCall.arg.value > 0
    /\ tracker.used_tokens > lastCall.arg.value
    /\ tracker.overhead > 0
    /\ remaining(tracker) >= 0

-----------------------------------------------------------------------------
(* Further properties of the strategies *)

\* C26: the string a strategy returns, the separators between the admitted
\* documents counted with the documents themselves, costs at most
\* token_limit - 50 tokens.
C26_ReturnedStringWithinLimit ==
    \A s \in Strategies :
        (Called(s) /\ token_limit >= StrategyOverhead) =>
            count_tokens(_TOKENIZER, call.result, "cl100k_base").n <= Avail

\* C29: what sandwich returns is a permutation of what primacy admits for
\* the same input; when at least 3 documents fit, the most relevant one is
\* first, the last one is among the top k = max(2, n // 3) by relevance and
\* a document outside the top k stands in between.
C29_SandwichPermutesPrimacy ==
    Called("sandwich") =>
        LET p == primacy_context_assembly(documents, scores, token_limit,
                                          embedder, _TOKENIZER)
            n == Len(p.admitted)
            k == Max(2, n \div 3)
            top == {p.admitted[i] : i \in 1..k}
        IN  /\ Len(call.admitted) = n
            /\ {call.admitted[i] : i \in 1..n} = {p.admitted[i] : i \in 1..n}
            /\ Cardinality({call.admitted[i] : i \in 1..n}) = n
            /\ n >= 3 =>
                  /\ call.admitted[1] = p.admitted[1]
                  /\ call.admitted[1] = DescRanking[1]
                  /\ call.admitted[n] \in top
                  /\ \E i \in 2..(n - 1) : call.admitted[i] \notin top

\* six documents fit and the most relevant one is not the caller's first
C29_Witness ==
    /\ Called("sandwich")
    /\ Len(call.admitted) = 6
    /\ call.admitted[1] # 1
    /\ call.admitted[6] # 6

-----------------------------------------------------------------------------
(* Properties of the lesson verifier *)

\* the names of the checks that recorded a pass or a failure
ChecksRun(self) ==
    {self.checks_passed[i] : i \in 1..Len(self.checks_passed)}
        \cup {self.checks_failed[i] : i \in 1..Len(self.checks_failed)}

\* C24: after all checks ran the grade is PASS iff checks_failed is empty;
\* the exit code is 0 iff the grade is PASS; with the results file missing
\* or not loadable the grade is FAIL and no later check has run.
C24_GradeAndExitCode ==
    verifier.pc = "exited" =>
        /\ verifier.exit_code = 0
              <=> verifier.report.verification.grade = "PASS"
        /\ "tasks_completed" \in DOMAIN verifier.report =>
              /\ {"strategies_implemented", "metrics_recorded",
                  "optimization_implemented", "comparison_analysis"}
                     \subseteq ChecksRun(verifier)
              /\ verifier.report.verification.grade = "PASS"
                    <=> verifier.checks_failed = <<>>
        /\ files.results.state \in {"missing", "corrupt"} =>
              /\ verifier.report.verification.grade = "FAIL"
              /\ ChecksRun(verifier) = {"results_file_exists"}
              /\ verifier.warnings = <<>>

\* a run on a complete results file ended with grade PASS and exit code 0
C24_Witness ==
    /\ verifier.pc = "exited"
    /\ verifier.exit_code = 0
    /\ verifier.checks_failed = <<>>
    /\ Len(verifier.checks_passed) = 6

\* C30: in every final report a grade of PASS implies that every entry of
\* tasks_completed has status PASS.
C30_PassImpliesAllTasksPass ==
    (/\ verifier.pc \in {"main", "exited"}
     /\ "tasks_completed" \in DOMAIN verifier.report
     /\ verifier.report.verification.grade = "PASS") =>
        \A task \in DOMAIN verifier.report.tasks_completed :
            verifier.report.tasks_completed[task] = "PASS"

-----------------------------------------------------------------------------
(* Properties of concurrent strategy invocations *)

\* the call of a strategy on its own, from a fresh interpreter
RunAlone(strategy) ==
    CASE strategy = "naive" ->
            naive_context_assembly(documents, token_limit, None)
      [] strategy = "primacy" ->
            primacy_context_assembly(documents, scores, token_limit,
                                     embedder, None)
      [] strategy = "recency" ->
            recency_context_assembly(documents, scores, token_limit,
                                     embedder, None)
      [] strategy = "sandwich" ->
            sandwich_context_assembly(documents, scores, token_limit,
                                      embedder, None)

\* token cost of the documents a loop has admitted so far
RECURSIVE IncludedCost(_)
IncludedCost(included) ==
    IF included = <<>>
    THEN 0
    ELSE Len(encode("cl100k_base", DocText(Head(included).doc)))
             + IncludedCost(Tail(included))

\* C27: every invocation has a tracker of its own that starts at used = 0
\* and is charged with its own documents only, and however the invocations
\* interleave each returns (or raises) what the same call yields alone.
C27_InvocationsAreIndependent ==
    \A p \in Invocations :
        /\ inflight[p].pc \in {"loop", "assemble"} =>
              /\ inflight[p].budget_manager.used_tokens
                    = IncludedCost(inflight[p].included)
              /\ inflight[p].budget_manager.max_tokens = token_limit
        /\ inflight[p].pc = "done" =>
              /\ inflight[p].outcome.raised
                    = RunAlone(inflight[p].strategy).raised
              /\ inflight[p].outcome.result
                    = RunAlone(inflight[p].strategy).result
              /\ inflight[p].outcome.admitted
                    = RunAlone(inflight[p].strategy).admitted

\* two invocations are inside their loops at once, each having admitted a
\* document, and one of them has not got everything in
C27_Witness ==
    /\ \A p \in Invocations :
          /\ inflight[p].pc \in {"loop", "assemble"}
          /\ inflight[p].included # <<>>
    /\ inflight[1].strategy # inflight[2].strategy
    /\ inflight[1].pc = "assemble"
    /\ Len(inflight[1].included) < Len(documents)

====
